---- MODULE Spec2Model ----
(***************************************************************************)
(* A model of the Raft leader election and heartbeat core in               *)
(* dp/kvstore/core/raft (node.go, statemachine.go): a cluster of nodes,    *)
(* each with its term, vote, role state machine, two periodic timers and   *)
(* the node mutex, driven by timer callbacks, peer RPCs and Start/Stop.    *)
(***************************************************************************)
EXTENDS Integers, Sequences, FiniteSets, TLC

\* --------------------------------------------------------------- bounds
\* Elections are started only while currentTerm < MaxTerm.
MaxTerm == 2
\* At most MaxStop calls of Stop() and MaxFail failed peer calls in a run.
MaxStop == 1
MaxFail == 1

\* ------------------------------------------------------------------ state
VARIABLES
    nodes,      \* the fields of each Node
    mutex,      \* n.mutex: the handler that holds it, or Unlocked
    fired,      \* timer callbacks that were spawned and wait for n.mutex
    votes,      \* executeElection: the state of each peer call of the fan-out
    hbIndex,    \* heatbeatTimeout: the index of the next peer of the loop
    panic,      \* the panic that ended the process, or NoPanic
    last,       \* the last handler that ran: its node, arguments and result
    calls,      \* the numbers of Stop() calls and of failed peer calls so far
    elected,    \* history: the (node, term) pairs of the elections won
    voted,      \* history: how many votes each node cast in each term (2: two or more)
    size,       \* len(cluster.allNodes): the number of nodes of the cluster
    hbTerm      \* heatbeatTimeout: the greatest term a reply of this tick reported

vars == <<nodes, mutex, fired, votes, hbIndex, panic, last, calls, elected, voted,
          size, hbTerm>>

\* ------------------------------------------------------------- the cluster
\* The cluster sizes of a run: a single node, or three nodes.
ClusterSizes == {1, 3}

\* Cluster.allNodes: node ids are 0-based and incrementing (NewNode).
allNodes == 0..(size - 1)

\* votedFor = nil
Nil == -1

\* Cluster.GetRemoteFollowers(id): the other nodes, in ascending id order.
RECURSIVE SortedSeq(_)
SortedSeq(S) ==
    IF S = {} THEN <<>>
    ELSE LET m == CHOOSE x \in S : \A y \in S : x <= y
         IN <<m>> \o SortedSeq(S \ {m})

GetRemoteFollowers(id) == SortedSeq(allNodes \ {id})

\* ------------------------------------------------------- statemachine.go
FOLLOWER == "FOLLOWER"
CANDIDATE == "CANDIDATE"
LEADER == "LEADER"
State == {FOLLOWER, CANDIDATE, LEADER}

validTransitions ==
    [s \in State |->
        CASE s = FOLLOWER -> {CANDIDATE}
          [] s = CANDIDATE -> {FOLLOWER, CANDIDATE, LEADER}
          [] s = LEADER -> {FOLLOWER}]

\* A faulty check: every transition is taken for valid.
isValidAny(current, next) == next \in State

\* Statemachine.isValid
isValid(current, next) == next \in validTransitions[current]

\* The panic of the process: NoPanic while it runs.
NoPanic == "running"
PanicTransition == "State change is not allowed."
PanicElection == "The election timeout should not happen, when a node is LEADER."
PanicHeartbeat == "sendHeartbeat should only run in LEADER state!"
PanicNilCluster == "nil pointer dereference: n.cluster"

\* The outcome of a piece of handler code: the node's fields afterwards and
\* the panic it raised, if any.
Ok(s) == [node |-> s, panic |-> NoPanic]
Panic(s, msg) == [node |-> s, panic |-> msg]

\* Statemachine.Next
Next(s, next) ==
    IF ~isValid(s.statemachine, next)
    THEN Panic(s, PanicTransition)
    ELSE Ok([s EXCEPT !.statemachine = next])

\* ------------------------------------------------------- periodic timer
\* timercontrol: resetC arms the timer, stopC disarms it.
resetC == TRUE
stopC == FALSE

\* ----------------------------------------------------------------- node.go
isLeader(s) == s.statemachine = LEADER
isNotLeader(s) == s.statemachine # LEADER
isCandidate(s) == s.statemachine = CANDIDATE

\* NewNode
NewNode ==
    [currentTerm |-> 0, votedFor |-> Nil, statemachine |-> FOLLOWER,
     stopped |-> FALSE, cluster |-> FALSE,
     electionTimer |-> stopC, heartbeatTimer |-> stopC]

\* Node.Start (body under the mutex)
Start(s) ==
    Ok([s EXCEPT !.stopped = FALSE, !.cluster = TRUE, !.electionTimer = resetC])

\* Node.Stop (body under the mutex)
Stop(s) ==
    Next([s EXCEPT !.stopped = TRUE, !.heartbeatTimer = stopC,
                   !.electionTimer = stopC], FOLLOWER)

\* Node.switchToFollower
switchToFollower(s) ==
    IF isLeader(s)
    THEN Next([s EXCEPT !.heartbeatTimer = stopC], FOLLOWER)
    ELSE IF isCandidate(s)
         THEN Next(s, FOLLOWER)
         ELSE Ok(s)

\* Node.switchToLeader
switchToLeader(s) ==
    LET r == Next(s, LEADER)
    IN IF r.panic # NoPanic THEN r
       ELSE Ok([r.node EXCEPT !.heartbeatTimer = resetC, !.electionTimer = stopC])

\* Node.startElectionProcess up to the fan-out of executeElection: the new
\* term, the role CANDIDATE, the vote for itself, then the read of n.cluster.
startElectionProcess(s, id) ==
    LET r == Next([s EXCEPT !.currentTerm = @ + 1], CANDIDATE)
        u == [r.node EXCEPT !.votedFor = id]
    IN IF r.panic # NoPanic THEN r
       ELSE IF u.cluster THEN Ok(u) ELSE Panic(u, PanicNilCluster)

\* Node.electionTimeout up to the fan-out. fanout says whether the handler
\* goes on to call the peers (and keeps the mutex) or has returned.
electionTimeout(s, id) ==
    IF s.stopped
    THEN [node |-> s, panic |-> NoPanic, fanout |-> FALSE]
    ELSE IF isLeader(s)
         THEN [node |-> s, panic |-> PanicElection, fanout |-> FALSE]
         ELSE LET r == startElectionProcess(s, id)
              IN [node |-> r.node, panic |-> r.panic, fanout |-> r.panic = NoPanic]

\* A faulty count: half of the cluster is taken for a majority.
executeElectionHalf(granted) ==
    LET nbrOfVotes == 1 + Cardinality(granted)
    IN nbrOfVotes >= Cardinality(allNodes) \div 2

\* Node.executeElection after wg.Wait(): count the votes.
executeElection(granted) ==
    LET nbrOfVotes == 1 + Cardinality(granted)
    IN nbrOfVotes >= (Cardinality(allNodes) \div 2) + 1

\* A faulty end of the election: a lost election leaves the role as it is.
finishElectionNoRevert(s, electionWon) ==
    IF electionWon
    THEN switchToLeader(s)
    ELSE Ok([s EXCEPT !.electionTimer = resetC])

\* Node.startElectionProcess after executeElection returned.
finishElection(s, electionWon) ==
    IF electionWon
    THEN switchToLeader(s)
    ELSE LET r == Next(s, FOLLOWER)
         IN IF r.panic # NoPanic THEN r
            ELSE Ok([r.node EXCEPT !.electionTimer = resetC])

\* Node.heatbeatTimeout up to the fan-out.
heatbeatTimeout(s) ==
    IF s.stopped
    THEN [node |-> s, panic |-> NoPanic, fanout |-> FALSE]
    ELSE IF isNotLeader(s)
         THEN [node |-> s, panic |-> PanicHeartbeat, fanout |-> FALSE]
         ELSE IF s.cluster
              THEN [node |-> s, panic |-> NoPanic, fanout |-> TRUE]
              ELSE [node |-> s, panic |-> PanicNilCluster, fanout |-> FALSE]

\* A faulty reply handling: an equal term demotes the leader too.
heartbeatReplyEqualTerm(s, term) ==
    IF term >= s.currentTerm THEN switchToFollower(s) ELSE Ok(s)

\* Node.heatbeatTimeout: what the leader does with one AppendEntries reply.
heartbeatReply(s, term) ==
    IF term > s.currentTerm THEN switchToFollower(s) ELSE Ok(s)

\* Node.AppendEntries (body under the mutex): the node afterwards, the panic,
\* and the returned pair (term, ok).
Reply(r, ok) ==
    [node |-> r.node, panic |-> r.panic, term |-> r.node.currentTerm, ok |-> ok]

\* A faulty AppendEntries: no stale-term check, the leader's term is taken as it is.
AppendEntriesNoStaleCheck(s, term, entries) ==
    IF s.stopped THEN Reply(Ok(s), FALSE)
    ELSE LET t == [s EXCEPT !.currentTerm = term]
         IN IF term # s.currentTerm /\ (isLeader(t) \/ isCandidate(t))
            THEN Reply(switchToFollower(t), FALSE)
            ELSE IF Len(entries) = 0
                 THEN Reply(Ok([t EXCEPT !.electionTimer = resetC]), TRUE)
                 ELSE Reply(Ok(t), TRUE)

AppendEntries(s, term, entries) ==
    IF s.stopped THEN Reply(Ok(s), FALSE)
    ELSE IF term < s.currentTerm THEN Reply(Ok(s), FALSE)
    ELSE LET t == IF term > s.currentTerm THEN [s EXCEPT !.currentTerm = term] ELSE s
         IN IF term > s.currentTerm /\ (isLeader(t) \/ isCandidate(t))
            THEN Reply(switchToFollower(t), FALSE)
            ELSE IF Len(entries) = 0
                 THEN Reply(Ok([t EXCEPT !.electionTimer = resetC]), TRUE)
                 ELSE Reply(Ok(t), TRUE)

\* A faulty grant: the greater term is adopted and the vote given without
\* leaving the role LEADER or CANDIDATE.
GrantVoteNoDemote(t, term, candidateID) ==
    LET u == IF term > t.currentTerm THEN [t EXCEPT !.currentTerm = term] ELSE t
    IN Reply(Ok([u EXCEPT !.votedFor = candidateID]), TRUE)

\* The part of RequestVote after the checks: adopt a greater term, grant.
GrantVote(t, term, candidateID) ==
    LET r == IF term > t.currentTerm
             THEN LET u == [t EXCEPT !.currentTerm = term]
                  IN IF isCandidate(u) \/ isLeader(u) THEN switchToFollower(u) ELSE Ok(u)
             ELSE Ok(t)
    IN IF r.panic # NoPanic THEN Reply(r, FALSE)
       ELSE Reply(Ok([r.node EXCEPT !.votedFor = candidateID]), TRUE)

\* A faulty RequestVote: the check of votedFor is missing.
RequestVoteNoVoteCheck(s, term, candidateID) ==
    IF s.stopped THEN Reply(Ok(s), FALSE)
    ELSE LET t == [s EXCEPT !.electionTimer = resetC]
         IN IF term < t.currentTerm THEN Reply(Ok(t), FALSE)
            ELSE GrantVote(t, term, candidateID)

\* A faulty RequestVote: the check of stopped is missing.
RequestVoteNoStopCheck(s, term, candidateID) ==
    LET t == [s EXCEPT !.electionTimer = resetC]
    IN IF term < t.currentTerm THEN Reply(Ok(t), FALSE)
       ELSE IF t.votedFor # Nil /\ term = t.currentTerm THEN Reply(Ok(t), FALSE)
       ELSE GrantVote(t, term, candidateID)

\* Node.RequestVote (body under the mutex)
RequestVote(s, term, candidateID) ==
    IF s.stopped THEN Reply(Ok(s), FALSE)
    ELSE LET t == [s EXCEPT !.electionTimer = resetC]
         IN IF term < t.currentTerm THEN Reply(Ok(t), FALSE)
            ELSE IF t.votedFor # Nil /\ term = t.currentTerm THEN Reply(Ok(t), FALSE)
            ELSE GrantVote(t, term, candidateID)

\* ------------------------------------------------------- handler positions
Unlocked == "unlocked"
InElection == "electionTimeout"
InHeartbeat == "heatbeatTimeout"

NoCall == "none"
Sent == "sent"
Granted == "true"
Denied == "false"

\* last: the handler op ran on node n, which was in role `role` when it took the
\* mutex, with the arguments (term, id); it returned (rterm, ok).
Op(op, n, role, term, id, rterm, ok) ==
    [op |-> op, node |-> n, role |-> role, term |-> term, id |-> id,
     rterm |-> rterm, ok |-> ok]

\* One more vote of node n in term t.
CastVote(v, n, t) == [v EXCEPT ![n][t] = IF @ < 2 THEN @ + 1 ELSE 2]

Init ==
    /\ size \in ClusterSizes
    /\ hbTerm = [n \in allNodes |-> 0]
    /\ nodes = [n \in allNodes |-> NewNode]
    /\ mutex = [n \in allNodes |-> Unlocked]
    /\ fired = [n \in allNodes |-> [election |-> FALSE, heartbeat |-> FALSE]]
    /\ votes = [n \in allNodes |-> [p \in allNodes |-> NoCall]]
    /\ hbIndex = [n \in allNodes |-> 0]
    /\ panic = NoPanic
    /\ last = Op("NewNode", Nil, FOLLOWER, Nil, Nil, Nil, FALSE)
    /\ calls = [stop |-> 0, fail |-> 0]
    /\ elected = {}
    /\ voted = [n \in allNodes |-> [t \in 0..MaxTerm |-> 0]]

Running == panic = NoPanic

\* Start(cluster) is called on node n, which is not running: it was never
\* started, or it was stopped.
DoStart(n) ==
    /\ Running
    /\ ~nodes[n].cluster \/ nodes[n].stopped
    /\ mutex[n] = Unlocked
    /\ LET r == Start(nodes[n])
       IN /\ nodes' = [nodes EXCEPT ![n] = r.node]
          /\ panic' = r.panic
    /\ last' = Op("Start", n, nodes[n].statemachine, Nil, Nil, Nil, TRUE)
    /\ UNCHANGED <<mutex, fired, votes, hbIndex, calls, elected, voted, size, hbTerm>>

\* Stop() is called on node n.
DoStop(n) ==
    /\ Running
    /\ calls.stop < MaxStop
    /\ calls' = [calls EXCEPT !.stop = @ + 1]
    /\ mutex[n] = Unlocked
    /\ LET r == Stop(nodes[n])
       IN /\ nodes' = [nodes EXCEPT ![n] = r.node]
          /\ panic' = r.panic
          /\ last' = Op("Stop", n, nodes[n].statemachine, Nil, Nil, Nil, r.panic = NoPanic)
    /\ UNCHANGED <<mutex, fired, votes, hbIndex, elected, voted, size, hbTerm>>

\* The election timer of n fires: the callback is spawned and the timer rearms.
\* One spawned callback at a time waits for the mutex; the timer may fire again
\* as soon as that callback has taken it.
ElectionTimerFire(n) ==
    /\ Running
    /\ nodes[n].electionTimer
    /\ ~fired[n].election
    /\ fired' = [fired EXCEPT ![n].election = TRUE]
    /\ UNCHANGED <<nodes, mutex, votes, hbIndex, panic, last, calls, elected,
                 voted, size, hbTerm>>

\* The heartbeat timer of n fires.
HeartbeatTimerFire(n) ==
    /\ Running
    /\ nodes[n].heartbeatTimer
    /\ ~fired[n].heartbeat
    /\ fired' = [fired EXCEPT ![n].heartbeat = TRUE]
    /\ UNCHANGED <<nodes, mutex, votes, hbIndex, panic, last, calls, elected,
                 voted, size, hbTerm>>

\* electionTimeout of n takes the mutex and runs up to the fan-out.
ElectionTimeout(n) ==
    /\ Running
    /\ fired[n].election
    /\ mutex[n] = Unlocked
    /\ nodes[n].stopped \/ isLeader(nodes[n]) \/ nodes[n].currentTerm < MaxTerm
    /\ LET r == electionTimeout(nodes[n], n)
       IN /\ nodes' = [nodes EXCEPT ![n] = r.node]
          /\ panic' = r.panic
          /\ mutex' = [mutex EXCEPT ![n] = IF r.fanout THEN InElection ELSE Unlocked]
          /\ votes' = [votes EXCEPT ![n] =
                 [p \in allNodes |-> IF r.fanout /\ p # n THEN Sent ELSE NoCall]]
          /\ voted' = IF r.node.votedFor = n /\ r.node.currentTerm # nodes[n].currentTerm
                      THEN CastVote(voted, n, r.node.currentTerm)
                      ELSE voted
          /\ last' = Op("electionTimeout", n, nodes[n].statemachine, Nil, Nil, Nil, r.fanout)
    /\ fired' = [fired EXCEPT ![n].election = FALSE]
    /\ UNCHANGED <<hbIndex, calls, elected, size, hbTerm>>

\* A faulty RequestVote that does not take the mutex of p.
RequestVoteCallNoLock(n, p) ==
    /\ Running
    /\ votes[n][p] = Sent
    /\ LET r == RequestVote(nodes[p], nodes[n].currentTerm, n)
       IN /\ nodes' = [nodes EXCEPT ![p] = r.node]
          /\ panic' = r.panic
          /\ votes' = [votes EXCEPT ![n][p] = IF r.ok THEN Granted ELSE Denied]
          /\ voted' = IF r.ok THEN CastVote(voted, p, r.term) ELSE voted
          /\ last' = Op("RequestVote", p, nodes[p].statemachine, nodes[n].currentTerm, n, r.term, r.ok)
    /\ UNCHANGED <<mutex, fired, hbIndex, calls, elected, size, hbTerm>>

\* One goroutine of the fan-out: RequestVote of candidate n runs on peer p.
RequestVoteCall(n, p) ==
    /\ Running
    /\ votes[n][p] = Sent
    /\ mutex[p] = Unlocked
    /\ LET r == RequestVote(nodes[p], nodes[n].currentTerm, n)
       IN /\ nodes' = [nodes EXCEPT ![p] = r.node]
          /\ panic' = r.panic
          /\ votes' = [votes EXCEPT ![n][p] = IF r.ok THEN Granted ELSE Denied]
          /\ voted' = IF r.ok THEN CastVote(voted, p, r.term) ELSE voted
          /\ last' = Op("RequestVote", p, nodes[p].statemachine, nodes[n].currentTerm, n, r.term, r.ok)
    /\ UNCHANGED <<mutex, fired, hbIndex, calls, elected, size, hbTerm>>

\* The call of candidate n to peer p fails: no grant.
RequestVoteFail(n, p) ==
    /\ Running
    /\ votes[n][p] = Sent
    /\ calls.fail < MaxFail
    /\ calls' = [calls EXCEPT !.fail = @ + 1]
    /\ votes' = [votes EXCEPT ![n][p] = Denied]
    /\ last' = Op("RequestVoteFail", p, nodes[p].statemachine, nodes[n].currentTerm, n, 0, FALSE)
    /\ UNCHANGED <<nodes, mutex, fired, hbIndex, panic, elected, voted, size, hbTerm>>

\* wg.Wait() of candidate n returns: count, switch role, release the mutex.
ElectionDone(n) ==
    /\ Running
    /\ mutex[n] = InElection
    /\ \A p \in allNodes \ {n} : votes[n][p] \in {Granted, Denied}
    /\ LET won == executeElection({p \in allNodes : votes[n][p] = Granted})
           r == finishElection(nodes[n], won)
       IN /\ nodes' = [nodes EXCEPT ![n] = r.node]
          /\ panic' = r.panic
          /\ elected' = IF isLeader(r.node)
                        THEN elected \cup {<<n, r.node.currentTerm>>}
                        ELSE elected
          /\ last' = Op("executeElection", n, nodes[n].statemachine, Nil, Nil, Nil, won)
    /\ mutex' = [mutex EXCEPT ![n] = Unlocked]
    /\ votes' = [votes EXCEPT ![n] = [p \in allNodes |-> NoCall]]
    /\ UNCHANGED <<fired, hbIndex, calls, voted, size, hbTerm>>

\* heatbeatTimeout of n takes the mutex and runs up to the loop.
HeatbeatTimeout(n) ==
    /\ Running
    /\ fired[n].heartbeat
    /\ mutex[n] = Unlocked
    /\ LET r == heatbeatTimeout(nodes[n])
       IN /\ nodes' = [nodes EXCEPT ![n] = r.node]
          /\ panic' = r.panic
          /\ mutex' = [mutex EXCEPT ![n] = IF r.fanout THEN InHeartbeat ELSE Unlocked]
          /\ hbIndex' = [hbIndex EXCEPT ![n] = IF r.fanout THEN 1 ELSE 0]
          /\ hbTerm' = [hbTerm EXCEPT ![n] = 0]
          /\ last' = Op("heatbeatTimeout", n, nodes[n].statemachine, Nil, Nil, Nil, r.fanout)
    /\ fired' = [fired EXCEPT ![n].heartbeat = FALSE]
    /\ UNCHANGED <<votes, calls, elected, voted, size>>

HeartbeatPeer(n) == GetRemoteFollowers(n)[hbIndex[n]]

InHeartbeatLoop(n) ==
    /\ mutex[n] = InHeartbeat
    /\ hbIndex[n] \in 1..Len(GetRemoteFollowers(n))

\* One iteration of the loop: AppendEntries of leader n runs on the next peer
\* and n handles the reply.
HeartbeatCall(n) ==
    /\ Running
    /\ InHeartbeatLoop(n)
    /\ LET p == HeartbeatPeer(n)
           r == AppendEntries(nodes[p], nodes[n].currentTerm, <<>>)
           q == heartbeatReply(nodes[n], r.term)
       IN /\ mutex[p] = Unlocked
          /\ nodes' = [nodes EXCEPT ![p] = r.node, ![n] = q.node]
          /\ panic' = IF r.panic # NoPanic THEN r.panic ELSE q.panic
          /\ last' = Op("AppendEntries", p, nodes[p].statemachine, nodes[n].currentTerm, n, r.term, r.ok)
          /\ hbTerm' = [hbTerm EXCEPT ![n] = IF r.term > @ THEN r.term ELSE @]
    /\ hbIndex' = [hbIndex EXCEPT ![n] = @ + 1]
    /\ UNCHANGED <<mutex, fired, votes, calls, elected, voted, size>>

\* The call of leader n to the next peer fails: the reply is (0, false).
HeartbeatFail(n) ==
    /\ Running
    /\ InHeartbeatLoop(n)
    /\ calls.fail < MaxFail
    /\ calls' = [calls EXCEPT !.fail = @ + 1]
    /\ last' = Op("AppendEntriesFail", HeartbeatPeer(n),
                   nodes[HeartbeatPeer(n)].statemachine, nodes[n].currentTerm, n, 0, FALSE)
    /\ hbIndex' = [hbIndex EXCEPT ![n] = @ + 1]
    /\ UNCHANGED <<nodes, mutex, fired, votes, panic, elected, voted, size, hbTerm>>

\* The loop of leader n is over: release the mutex.
HeartbeatDone(n) ==
    /\ Running
    /\ mutex[n] = InHeartbeat
    /\ hbIndex[n] > Len(GetRemoteFollowers(n))
    /\ mutex' = [mutex EXCEPT ![n] = Unlocked]
    /\ hbIndex' = [hbIndex EXCEPT ![n] = 0]
    /\ last' = Op("heatbeatDone", n, nodes[n].statemachine, Nil, Nil, Nil, TRUE)
    /\ hbTerm' = [hbTerm EXCEPT ![n] = 0]
    /\ UNCHANGED <<nodes, fired, votes, panic, calls, elected, voted, size>>

Step ==
    \/ \E n \in allNodes : DoStart(n)
    \/ \E n \in allNodes : DoStop(n)
    \/ \E n \in allNodes : ElectionTimerFire(n)
    \/ \E n \in allNodes : HeartbeatTimerFire(n)
    \/ \E n \in allNodes : ElectionTimeout(n)
    \/ \E n \in allNodes : \E p \in allNodes \ {n} : RequestVoteCall(n, p)
    \/ \E n \in allNodes : \E p \in allNodes \ {n} : RequestVoteFail(n, p)
    \/ \E n \in allNodes : ElectionDone(n)
    \/ \E n \in allNodes : HeatbeatTimeout(n)
    \/ \E n \in allNodes : HeartbeatCall(n)
    \/ \E n \in allNodes : HeartbeatFail(n)
    \/ \E n \in allNodes : HeartbeatDone(n)

Spec == Init /\ [][Step]_vars

\* ------------------------------------------------------------- scenario B
\* A cluster of three nodes, none of them stopped and no peer call failing.
\* Start() is called once on each node, at any time. The election timer of
\* node 0 is the only election timer that runs out, and it does so once, in
\* term 0: the election ends before the timer runs out again, and every later
\* heartbeat arrives before the election timer of a follower runs out.
InitB ==
    /\ Init
    /\ size = 3

FirstElectionTimerFire ==
    /\ nodes[0].currentTerm = 0
    /\ ElectionTimerFire(0)

StepB ==
    \/ \E n \in allNodes : DoStart(n)
    \/ FirstElectionTimerFire
    \/ \E n \in allNodes : HeartbeatTimerFire(n)
    \/ \E n \in allNodes : ElectionTimeout(n)
    \/ \E n \in allNodes : \E p \in allNodes \ {n} : RequestVoteCall(n, p)
    \/ \E n \in allNodes : ElectionDone(n)
    \/ \E n \in allNodes : HeatbeatTimeout(n)
    \/ \E n \in allNodes : HeartbeatCall(n)
    \/ \E n \in allNodes : HeartbeatDone(n)

SpecB == InitB /\ [][StepB]_vars

\* ----------------------------------------------------------------- claims
Idle(n) == mutex[n] = Unlocked
Terms == 0..MaxTerm

\* C1: election safety. Of the elections won, no two are won by different
\* nodes in the same term.
C1_ElectionSafety ==
    \A a \in elected : \A b \in elected : a[2] = b[2] => a[1] = b[1]

\* Two different nodes have won an election (in different terms, by C1).
C1_Witness ==
    \E a \in elected : \E b \in elected : a[1] # b[1]

\* C2: Stop() on a started node in any role completes without a fatal abort
\* and leaves stopped = true, role FOLLOWER and both timers disarmed.
C2_StopCompletes ==
    (last.op = "Stop" /\ nodes[last.node].cluster) =>
        /\ panic = NoPanic
        /\ nodes[last.node].stopped
        /\ nodes[last.node].statemachine = FOLLOWER
        /\ ~nodes[last.node].electionTimer
        /\ ~nodes[last.node].heartbeatTimer

\* C3: a node casts at most one vote per term, its self-votes included.
C3_OneVotePerTerm ==
    \A n \in allNodes : \A t \in Terms : voted[n][t] <= 1

\* A node that has voted in term t has just denied a RequestVote for term t.
C3_Witness ==
    /\ last.op = "RequestVote"
    /\ ~last.ok
    /\ ~nodes[last.node].stopped
    /\ last.term = nodes[last.node].currentTerm
    /\ voted[last.node][last.term] = 1

\* C4: whenever no handler holds the node's mutex, a LEADER does not have its
\* election timer armed and a non-LEADER does not have its heartbeat timer armed.
C4_TimersMatchRole ==
    \A n \in allNodes :
        Idle(n) =>
            /\ isLeader(nodes[n]) => ~nodes[n].electionTimer
            /\ isNotLeader(nodes[n]) => ~nodes[n].heartbeatTimer

\* C5: whenever no handler holds its mutex, a started, non-stopped FOLLOWER
\* has its election timer armed.
C5_FollowerElectionTimerArmed ==
    \A n \in allNodes :
        (Idle(n) /\ nodes[n].cluster /\ ~nodes[n].stopped
                 /\ nodes[n].statemachine = FOLLOWER)
            => nodes[n].electionTimer

\* C6: a step that starts and ends with node n stopped changes none of n's
\* fields and leaves n out of any fan-out with its mutex free; a RequestVote or
\* AppendEntries on n in such a step returns (currentTerm, false).
C6_StoppedStep(n) ==
    (nodes[n].stopped /\ nodes'[n].stopped) =>
        /\ nodes'[n] = nodes[n]
        /\ votes'[n] = votes[n]
        /\ hbIndex'[n] = hbIndex[n]
        /\ mutex'[n] = Unlocked
        /\ (last' # last /\ last'.node = n /\ last'.op \in {"RequestVote", "AppendEntries"})
              => (last'.rterm = nodes[n].currentTerm /\ ~last'.ok)

C6_StoppedNodeFrozen == [][\A n \in allNodes : C6_StoppedStep(n)]_vars

\* A timer callback or an RPC handler has just run on a stopped node.
C6_Witness ==
    /\ last.op \in {"electionTimeout", "heatbeatTimeout", "RequestVote", "AppendEntries"}
    /\ nodes[last.node].stopped
    /\ panic = NoPanic

\* C7: votedFor never carries a vote over into a later term: whenever no
\* handler holds the mutex, a recorded vote was cast in the node's currentTerm.
C7_VoteIsOfCurrentTerm ==
    \A n \in allNodes :
        (Idle(n) /\ nodes[n].votedFor # Nil) => voted[n][nodes[n].currentTerm] >= 1

\* C8: the decision table of RequestVote on a running node.
C8_RequestVoteStep ==
    (last' # last /\ last'.op = "RequestVote" /\ ~nodes[last'.node].stopped) =>
        LET s == nodes[last'.node]
            t == nodes'[last'.node]
            term == last'.term
            deny == \/ term < s.currentTerm
                    \/ term = s.currentTerm /\ s.votedFor # Nil
        IN /\ last'.ok = ~deny
           /\ last'.rterm = t.currentTerm
           /\ deny => /\ t.currentTerm = s.currentTerm
                       /\ t.votedFor = s.votedFor
                       /\ t.statemachine = s.statemachine
           /\ ~deny => /\ t.votedFor = last'.id
                        /\ t.currentTerm = term
                        /\ t.statemachine =
                              IF term > s.currentTerm /\ s.statemachine \in {CANDIDATE, LEADER}
                              THEN FOLLOWER
                              ELSE s.statemachine

C8_RequestVoteTable == [][C8_RequestVoteStep]_vars

\* A LEADER has just granted a RequestVote of a greater term and is FOLLOWER.
C8_Witness ==
    /\ last.op = "RequestVote"
    /\ last.ok
    /\ last.role = LEADER
    /\ nodes[last.node].statemachine = FOLLOWER
    /\ nodes[last.node].votedFor = last.id

\* C9: the decision table of AppendEntries with no entries on a running node.
C9_AppendEntriesStep ==
    (last' # last /\ last'.op = "AppendEntries" /\ ~nodes[last'.node].stopped) =>
        LET s == nodes[last'.node]
            t == nodes'[last'.node]
            term == last'.term
        IN CASE term < s.currentTerm ->
                  /\ last'.rterm = s.currentTerm /\ ~last'.ok
                  /\ t = s
             [] term > s.currentTerm /\ s.statemachine \in {LEADER, CANDIDATE} ->
                  /\ last'.rterm = term /\ ~last'.ok
                  /\ t.currentTerm = term
                  /\ t.statemachine = FOLLOWER
             [] OTHER ->
                  /\ last'.rterm = t.currentTerm /\ last'.ok
                  /\ t.currentTerm = IF term > s.currentTerm THEN term ELSE s.currentTerm
                  /\ t.electionTimer
                  /\ t.votedFor = s.votedFor
                  /\ t.statemachine = s.statemachine

C9_AppendEntriesTable == [][C9_AppendEntriesStep]_vars

\* A LEADER has just received an AppendEntries of a greater term.
C9_Witness ==
    /\ last.op = "AppendEntries"
    /\ last.role = LEADER
    /\ ~last.ok
    /\ last.rterm = last.term
    /\ nodes[last.node].statemachine = FOLLOWER

\* C10: currentTerm never decreases; it changes only by 1 at the start of an
\* election of the node, or to the strictly greater term that a RequestVote or
\* AppendEntries call on the node carries.
C10_TermStep(n) ==
    /\ nodes'[n].currentTerm >= nodes[n].currentTerm
    /\ nodes'[n].currentTerm # nodes[n].currentTerm =>
          \/ /\ last'.op = "electionTimeout"
             /\ last'.node = n
             /\ nodes'[n].currentTerm = nodes[n].currentTerm + 1
          \/ /\ last'.op \in {"RequestVote", "AppendEntries"}
             /\ last'.node = n
             /\ last'.term > nodes[n].currentTerm
             /\ nodes'[n].currentTerm = last'.term

C11_HeartbeatDoneStep ==
    (last' # last /\ last'.op = "heatbeatDone") =>
        nodes'[last'.node].currentTerm >= hbTerm[last'.node]

C11_LeaderAdoptsReplyTerm == [][C11_HeartbeatDoneStep]_vars

\* C12: a heartbeat tick of a running LEADER calls every peer; when the handler
\* returns the node is FOLLOWER with its heartbeat timer stopped if a reply
\* reported a term greater than its currentTerm, and otherwise LEADER with the
\* heartbeat timer armed. votedFor does not change during the tick.
C12_HeartbeatDoneStep ==
    (last' # last /\ last'.op = "heatbeatDone") =>
        LET n == last'.node
            t == nodes'[n]
        IN /\ hbIndex[n] = Len(GetRemoteFollowers(n)) + 1
           /\ IF hbTerm[n] > t.currentTerm
              THEN t.statemachine = FOLLOWER /\ ~t.heartbeatTimer
              ELSE t.statemachine = LEADER /\ t.heartbeatTimer

C12_HeartbeatTickStep(n) ==
    mutex[n] = InHeartbeat => nodes'[n].votedFor = nodes[n].votedFor

C12_HeartbeatOutcome ==
    [][C12_HeartbeatDoneStep /\ \A n \in allNodes : C12_HeartbeatTickStep(n)]_vars

\* The loop of a tick is over and a reply of a greater term has demoted the node.
C12_Witness ==
    \E n \in allNodes :
        /\ mutex[n] = InHeartbeat
        /\ hbIndex[n] > Len(GetRemoteFollowers(n))
        /\ hbTerm[n] > nodes[n].currentTerm
        /\ nodes[n].statemachine = FOLLOWER
        /\ size = 3

\* C13: an election is won exactly when 1 plus the number of granting peers is
\* at least floor(N/2)+1; the winner is LEADER when the handler returns, the
\* loser FOLLOWER with its election timer armed. With N = 1 the node wins
\* without a peer call.
C13_ElectionDoneStep ==
    (last' # last /\ last'.op = "executeElection") =>
        LET n == last'.node
            t == nodes'[n]
            grants == Cardinality({p \in allNodes \ {n} : votes[n][p] = Granted})
            quorum == CASE size = 1 -> 1
                        [] size = 2 -> 2
                        [] size = 3 -> 2
            won == 1 + grants >= quorum
        IN /\ last'.ok = won
           /\ won => t.statemachine = LEADER
           /\ ~won => (t.statemachine = FOLLOWER /\ t.electionTimer)
           /\ mutex'[n] = Unlocked
           /\ size = 1 => (won /\ \A p \in allNodes : votes[n][p] = NoCall)

C13_ElectionOutcome == [][C13_ElectionDoneStep]_vars

\* A node of a 3-node cluster has just lost an election.
C13_Witness ==
    /\ last.op = "executeElection"
    /\ ~last.ok
    /\ size = 3
    /\ nodes[last.node].statemachine = FOLLOWER
    /\ nodes[last.node].electionTimer

\* The node of a single-node cluster has won its election.
C13_SingleNodeLeader ==
    size = 1 /\ last.op = "executeElection" /\ last.ok /\ isLeader(nodes[0])

\* C14: the handlers of one node exclude each other. A handler enters its
\* critical section only when no handler of the node is inside one, and
\* electionTimeout and heatbeatTimeout stay inside until every peer call of
\* their fan-out has returned.
C14_EnterStep ==
    (/\ last' # last
     /\ last'.op \in {"Start", "Stop", "RequestVote", "AppendEntries",
                      "electionTimeout", "heatbeatTimeout"})
        => mutex[last'.node] = Unlocked

C14_LeaveStep(n) ==
    /\ (mutex[n] = InElection /\ mutex'[n] # InElection) =>
           \A p \in allNodes \ {n} : votes[n][p] \in {Granted, Denied}
    /\ (mutex[n] = InHeartbeat /\ mutex'[n] # InHeartbeat) =>
           hbIndex[n] > Len(GetRemoteFollowers(n))
    /\ (\E p \in allNodes : votes[n][p] = Sent) => mutex[n] = InElection
    /\ hbIndex[n] # 0 => mutex[n] = InHeartbeat

C14_MutualExclusion == [][C14_EnterStep /\ \A n \in allNodes : C14_LeaveStep(n)]_vars

\* A RequestVote for node n waits while n is inside its own heartbeat loop.
C14_Witness ==
    \E n \in allNodes : \E p \in allNodes :
        /\ votes[p][n] = Sent
        /\ mutex[n] = InHeartbeat
        /\ mutex[p] = InElection

\* C15: the role changes only along FOLLOWER->CANDIDATE,
\* CANDIDATE->{FOLLOWER, CANDIDATE, LEADER}, LEADER->FOLLOWER. A request of
\* Statemachine.Next inside this table stores the role and nothing else; a
\* request outside it panics and leaves the node as it was.
C15_Table ==
    {<<FOLLOWER, CANDIDATE>>, <<CANDIDATE, FOLLOWER>>, <<CANDIDATE, CANDIDATE>>,
     <<CANDIDATE, LEADER>>, <<LEADER, FOLLOWER>>}

C15_NextRequest(s, next) ==
    LET r == Next(s, next)
    IN IF <<s.statemachine, next>> \in C15_Table
       THEN r.panic = NoPanic /\ r.node = [s EXCEPT !.statemachine = next]
       ELSE r.panic # NoPanic /\ r.node = s

C15_RoleStep(n) ==
    /\ nodes[n].statemachine \in State
    /\ last.op = "NewNode" => nodes[n].statemachine = FOLLOWER
    /\ nodes'[n].statemachine # nodes[n].statemachine =>
          <<nodes[n].statemachine, nodes'[n].statemachine>> \in C15_Table
    /\ \A next \in State : C15_NextRequest(nodes[n], next)

C15_RoleTransitions == [][\A n \in allNodes : C15_RoleStep(n)]_vars

\* A request outside the table has aborted the process: Stop() on a FOLLOWER.
C15_Witness ==
    /\ panic = PanicTransition
    /\ last.op = "Stop"
    /\ last.role = FOLLOWER
    /\ nodes[last.node].statemachine = FOLLOWER

\* C16: scenario B. The election of node 0 ends with node 0 LEADER in term 1
\* and the votes of nodes 1 and 2 granted; from then on every heartbeat is
\* accepted by its follower in term 1 and leaves the follower's election timer
\* armed, nodes 1 and 2 stay FOLLOWER, node 0 stays LEADER in term 1 and the
\* process does not abort.
C16_ElectionStep ==
    (last' # last /\ last'.op = "executeElection") =>
        /\ last'.node = 0
        /\ last'.ok
        /\ isLeader(nodes'[0])
        /\ nodes'[0].currentTerm = 1
        /\ nodes'[0].heartbeatTimer
        /\ \A p \in {1, 2} : votes[0][p] = Granted /\ nodes[p].votedFor = 0

C16_HeartbeatStep ==
    (last' # last /\ last'.op = "AppendEntries") =>
        LET p == last'.node
        IN /\ p \in {1, 2}
           /\ last'.id = 0
           /\ last'.ok
           /\ last'.rterm = 1
           /\ nodes'[p].electionTimer

C16_ScenarioStep ==
    /\ C16_ElectionStep
    /\ C16_HeartbeatStep
    /\ isLeader(nodes[0]) =>
          /\ isLeader(nodes'[0])
          /\ nodes'[0].currentTerm = 1
          /\ nodes'[0].heartbeatTimer
    /\ \A p \in {1, 2} : nodes'[p].statemachine = FOLLOWER /\ nodes'[p].currentTerm <= 1
    /\ panic' = NoPanic

C17_WaitsFor(n, p) ==
    \/ mutex[n] = InElection /\ votes[n][p] = Sent
    \/ InHeartbeatLoop(n) /\ HeartbeatPeer(n) = p

C17_NoMutualWait ==
    \A n \in allNodes : \A p \in allNodes \ {n} :
        ~(C17_WaitsFor(n, p) /\ C17_WaitsFor(p, n))

\* The same for an election on one node and a heartbeat tick on the other.
C17_NoElectionHeartbeatWait ==
    \A n \in allNodes : \A p \in allNodes \ {n} :
        ~(/\ InHeartbeatLoop(n) /\ HeartbeatPeer(n) = p
          /\ mutex[p] = InElection /\ votes[p][n] = Sent)

\* C18: the wrong-role checks of the timer handlers never abort the process:
\* electionTimeout never finds the role LEADER and heatbeatTimeout never finds
\* a role other than LEADER. No node was stopped and no call failed.
C18_Undisturbed == calls.stop = 0 /\ calls.fail = 0

C18_NoWrongRolePanic ==
    C18_Undisturbed => panic \notin {PanicElection, PanicHeartbeat}

\* The part of C18 about heatbeatTimeout in a cluster of three: the callback
\* of a heartbeat timer that ran out never finds its node demoted.
C18_NoHeartbeatOnFollower ==
    (C18_Undisturbed /\ size = 3) => panic # PanicHeartbeat

\* The part of C18 about a re-armed election timer: electionTimeout never
\* finds a LEADER whose election timer is armed (here a call may have failed).
C18_NoArmedLeaderTimeout ==
    ~(/\ panic = PanicElection
      /\ nodes[last.node].electionTimer)

\* C19: the role CANDIDATE is not visible outside a running election handler.
\* While the process runs, a node whose mutex is free is FOLLOWER or LEADER,
\* and every handler that takes the mutex finds the node FOLLOWER or LEADER.
C19_EntryOps ==
    {"Start", "Stop", "RequestVote", "AppendEntries", "electionTimeout",
     "heatbeatTimeout"}

C19_CandidateHidden ==
    /\ Running => \A n \in allNodes :
          Idle(n) => nodes[n].statemachine \in {FOLLOWER, LEADER}
    /\ last.op \in C19_EntryOps => last.role \in {FOLLOWER, LEADER}
    /\ \A n \in allNodes : mutex[n] = InElection => isCandidate(nodes[n])

\* An RPC handler has run on a node that lost an election of its own: the
\* node still holds its vote for itself and was found FOLLOWER.
C19_Witness ==
    /\ Running
    /\ last.op \in {"RequestVote", "AppendEntries"}
    /\ last.role = FOLLOWER
    /\ Idle(last.node)
    /\ nodes[last.node].votedFor = last.node
    /\ nodes[last.node].statemachine = FOLLOWER
    /\ <<last.node, nodes[last.node].currentTerm>> \notin elected

\* C20: a LEADER has voted for itself and its currentTerm is the term of an
\* election it won; no step changes the currentTerm or the votedFor of a node
\* that is LEADER before and after the step.
C20_LeaderState(n) ==
    isLeader(nodes[n]) =>
        /\ nodes[n].votedFor = n
        /\ <<n, nodes[n].currentTerm>> \in elected

C20_LeaderStep(n) ==
    /\ C20_LeaderState(n)
    /\ C20_LeaderState(n)'
    /\ (isLeader(nodes[n]) /\ isLeader(nodes'[n])) =>
          /\ nodes'[n].currentTerm = nodes[n].currentTerm
          /\ nodes'[n].votedFor = nodes[n].votedFor

C20_LeaderTermAndVote == [][\A n \in allNodes : C20_LeaderStep(n)]_vars

\* A LEADER has denied a RequestVote and is still LEADER.
C20_Witness ==
    /\ Running
    /\ last.op = "RequestVote"
    /\ last.role = LEADER
    /\ ~last.ok
    /\ isLeader(nodes[last.node])
    /\ nodes[last.node].currentTerm = last.rterm
====
